---- MODULE Spec2Model ----
(***************************************************************************)
(* The /process endpoint of main.py: process_prompt, call_language_engine  *)
(* and the world-model graph G, as a state machine of concurrent requests. *)
(*                                                                         *)
(* Conventions.  A Python value is a record [k |-> type name, v |-> ...].  *)
(* A str that the program parses, strips or assembles is a "text": a       *)
(* sequence of lexical tokens [k |-> token kind, v |-> characters].  A str *)
(* the program only compares or copies (a node name, a JSON key) is an     *)
(* atom k = "str" whose v is a TLA+ string.                                *)
(***************************************************************************)
EXTENDS Integers, Sequences, FiniteSets, TLC

(***************************************************************************)
(* Bounds of the model.                                                    *)
(***************************************************************************)
\* Number of requests that may be in flight together.
NumReqs == 2

Reqs == 1..NumReqs

(***************************************************************************)
(* Lexical tokens and texts.                                               *)
(***************************************************************************)
Tok(kind, chars) == [k |-> kind, v |-> chars]

WS         == Tok("ws", " ")
NL         == Tok("ws", "\n")
LBrace     == Tok("punct", "{")
RBrace     == Tok("punct", "}")
LBracket   == Tok("punct", "[")
RBracket   == Tok("punct", "]")
Colon      == Tok("punct", ":")
Comma      == Tok("punct", ",")
StrTok(s)  == Tok("string", s)
NumTok(d)  == Tok("number", d)
LitTok(w)  == Tok("literal", w)
Chars(s)   == Tok("chars", s)

(***************************************************************************)
(* Python values.                                                          *)
(***************************************************************************)
PyStr(s)     == [k |-> "str", v |-> s]
PyInt(d)     == [k |-> "int", v |-> d]
PyFloat(d)   == [k |-> "float", v |-> d]
PyBool(b)    == [k |-> "bool", v |-> b]
PyNone       == [k |-> "NoneType", v |-> "None"]
PyList(s)    == [k |-> "list", v |-> s]
\* A dict keeps insertion order: a sequence of items with distinct keys.
PyDict(its)  == [k |-> "dict", v |-> its]
Item(key, val) == [key |-> key, val |-> val]

DictKeys(d) == {d.v[i].key : i \in 1..Len(d.v)}

DictIndex(d, key) == CHOOSE i \in 1..Len(d.v) : d.v[i].key = key

\* d[key] = val: a present key keeps its position and takes the new value.
DictSet(d, key, val) ==
    IF key \in DictKeys(d)
    THEN PyDict([d.v EXCEPT ![DictIndex(d, key)] = Item(key, val)])
    ELSE PyDict(Append(d.v, Item(key, val)))

\* dict.get(key, default)
DictGet(d, key, default) ==
    IF key \in DictKeys(d) THEN d.v[DictIndex(d, key)].val ELSE default

\* a == b for the values compared in this program (a value against a str).
PyEq(a, b) == a.k = b.k /\ a.v = b.v

(***************************************************************************)
(* str.strip(): leading and trailing whitespace removed.                   *)
(***************************************************************************)
RECURSIVE LStrip(_)
LStrip(text) ==
    IF text # <<>> /\ Head(text).k = "ws" THEN LStrip(Tail(text)) ELSE text

RECURSIVE RStrip(_)
RStrip(text) ==
    IF text # <<>> /\ text[Len(text)].k = "ws"
    THEN RStrip(SubSeq(text, 1, Len(text) - 1))
    ELSE text

Strip(text) == RStrip(LStrip(text))

(***************************************************************************)
(* json.loads.  The scanner skips whitespace between tokens; a value is a  *)
(* string, a number, a literal (null, true, false, and NaN, which Python   *)
(* accepts), an array or an object; anything else, or text left over after *)
(* the value, raises JSONDecodeError.                                      *)
(***************************************************************************)
SkipWS(text) == SelectSeq(text, LAMBDA t : t.k # "ws")

ParseFail == [ok |-> FALSE, val |-> PyNone, rest |-> <<>>]
ParseOk(val, rest) == [ok |-> TRUE, val |-> val, rest |-> rest]

LiteralValue(w) ==
    CASE w = "null"  -> PyNone
      [] w = "true"  -> PyBool("True")
      [] w = "false" -> PyBool("False")
      [] OTHER       -> PyFloat("nan")

RECURSIVE ParseValue(_), ParseElements(_, _), ParseMembers(_, _)

ParseValue(toks) ==
    IF toks = <<>> THEN ParseFail
    ELSE LET t == Head(toks)
             rest == Tail(toks)
         IN CASE t.k = "string"  -> ParseOk(PyStr(t.v), rest)
              [] t.k = "number"  -> ParseOk(PyInt(t.v), rest)
              [] t.k = "literal" -> ParseOk(LiteralValue(t.v), rest)
              [] t = LBracket ->
                    IF rest # <<>> /\ Head(rest) = RBracket
                    THEN ParseOk(PyList(<<>>), Tail(rest))
                    ELSE ParseElements(rest, <<>>)
              [] t = LBrace ->
                    IF rest # <<>> /\ Head(rest) = RBrace
                    THEN ParseOk(PyDict(<<>>), Tail(rest))
                    ELSE ParseMembers(rest, PyDict(<<>>))
              [] OTHER -> ParseFail

ParseElements(toks, acc) ==
    LET e == ParseValue(toks)
    IN IF ~e.ok \/ e.rest = <<>> THEN ParseFail
       ELSE LET sep == Head(e.rest)
                more == Tail(e.rest)
                got == Append(acc, e.val)
            IN CASE sep = Comma    -> ParseElements(more, got)
                 [] sep = RBracket -> ParseOk(PyList(got), more)
                 [] OTHER          -> ParseFail

ParseMembers(toks, acc) ==
    IF Len(toks) < 2 \/ toks[1].k # "string" \/ toks[2] # Colon THEN ParseFail
    ELSE LET key == toks[1].v
             e == ParseValue(SubSeq(toks, 3, Len(toks)))
         IN IF ~e.ok \/ e.rest = <<>> THEN ParseFail
            ELSE LET sep == Head(e.rest)
                     more == Tail(e.rest)
                     got == DictSet(acc, key, e.val)
                 IN CASE sep = Comma  -> ParseMembers(more, got)
                      [] sep = RBrace -> ParseOk(got, more)
                      [] OTHER        -> ParseFail

\* [ok |-> FALSE] stands for JSONDecodeError.
JsonLoads(text) ==
    LET r == ParseValue(SkipWS(text))
    IN IF r.ok /\ r.rest = <<>> THEN [ok |-> TRUE, val |-> r.val]
       ELSE [ok |-> FALSE, val |-> PyNone]

(***************************************************************************)
(* json.dumps with the default separators (", " and ": "), for the values  *)
(* process_prompt serialises: strs, lists of strs, dicts of those.         *)
(***************************************************************************)
RECURSIVE JsonDumps(_), DumpElements(_), DumpItems(_)

JsonDumps(val) ==
    CASE val.k = "str"  -> <<StrTok(val.v)>>
      [] val.k = "int"  -> <<NumTok(val.v)>>
      [] val.k = "NoneType" -> <<LitTok("null")>>
      [] val.k = "list" -> <<LBracket>> \o DumpElements(val.v) \o <<RBracket>>
      [] val.k = "dict" -> <<LBrace>> \o DumpItems(val.v) \o <<RBrace>>

DumpElements(s) ==
    IF s = <<>> THEN <<>>
    ELSE JsonDumps(Head(s))
         \o (IF Len(s) > 1 THEN <<Comma, WS>> ELSE <<>>)
         \o DumpElements(Tail(s))

DumpItems(its) ==
    IF its = <<>> THEN <<>>
    ELSE <<StrTok(Head(its).key), Colon, WS>> \o JsonDumps(Head(its).val)
         \o (IF Len(its) > 1 THEN <<Comma, WS>> ELSE <<>>)
         \o DumpItems(Tail(its))

(***************************************************************************)
(* The world model G, a networkx DiGraph: node -> attribute dict, and      *)
(* (u, v) -> edge attribute dict.                                          *)
(***************************************************************************)
NoAttrs == [a \in {} |-> <<>>]

DiGraph == [node |-> [n \in {} |-> NoAttrs], edge |-> [e \in {} |-> NoAttrs]]

\* G.add_node(n, **attrs): a new node, or new attributes for an old one.
add_node(g, n, attrs) ==
    [g EXCEPT !.node = IF n \in DOMAIN @
                       THEN (n :> (attrs @@ @[n])) @@ @
                       ELSE (n :> attrs) @@ @]

\* G.add_edge(u, v, **attrs): the end points become nodes if they are not.
add_edge(g, u, v, attrs) ==
    LET g1 == add_node(add_node(g, u, NoAttrs), v, NoAttrs)
    IN [g1 EXCEPT !.edge = IF <<u, v>> \in DOMAIN @
                           THEN (<<u, v>> :> (attrs @@ @[<<u, v>>])) @@ @
                           ELSE (<<u, v>> :> attrs) @@ @]

\* The foundational knowledge added at import time.
SeedGraph ==
    LET g1 == add_node(DiGraph, "water", "properties" :> <<"liquid", "wet">>)
        g2 == add_node(g1, "ice", "properties" :> <<"solid", "cold">>)
        g3 == add_node(g2, "heat", "properties" :> <<"energy">>)
        g4 == add_edge(g3, "water", "ice", "action" :> <<"remove_heat">>)
    IN add_edge(g4, "ice", "water", "action" :> <<"apply_heat">>)

\* A list or a dict is unhashable: looking it up in a dict raises TypeError.
Hashable(val) == val.k \notin {"list", "dict"}

\* A lookup that inserts the missing key (what a defaultdict does).
has_node_inserting(g, n) ==
    LET found == Hashable(n) /\ n.k = "str" /\ n.v \in DOMAIN g.node
    IN [found |-> found,
        store |-> IF found \/ n.k # "str" THEN g ELSE add_node(g, n.v, NoAttrs)]

\* A lookup that finds every str.
has_node_any_str(g, n) == [found |-> n.k = "str", store |-> g]

\* G.has_node(n): n in G._node, and False on TypeError.  The store it
\* leaves behind is the store it was given.
has_node(g, n) ==
    [found |-> Hashable(n) /\ n.k = "str" /\ n.v \in DOMAIN g.node,
     store |-> g]

\* The lookup under a misspelt attribute name: always the default.
NodePropertiesDefault(g, n) ==
    [exc |-> IF n \in DOMAIN g.node THEN "" ELSE "KeyError",
     properties |-> <<>>, store |-> g]

\* G.nodes[n].get("properties", []); G.nodes[n] raises KeyError when n is
\* no node.
NodeProperties(g, n) ==
    [exc |-> IF n \in DOMAIN g.node THEN "" ELSE "KeyError",
     properties |-> IF n \in DOMAIN g.node /\ "properties" \in DOMAIN g.node[n]
                    THEN g.node[n]["properties"] ELSE <<>>,
     store |-> g]

\* A Python list of strs from the store's sequence of names.
StrList(names) == PyList([i \in 1..Len(names) |-> PyStr(names[i])])

(***************************************************************************)
(* call_language_engine, up to its await: the prompt template, the payload *)
(* and the POST.                                                           *)
(***************************************************************************)
MaxNewTokens == 100
ClientTimeout == 30

Instruction(direction) ==
    IF direction = "to_query"
    THEN "Convert the following sentence to a structured query."
    ELSE "Convert the following structured data to a sentence."

PromptTemplate(instruction, input_text) ==
    <<Chars("### Instruction:"), NL, Chars(instruction), NL, NL,
      Chars("### Input:"), NL>>
    \o input_text
    \o <<NL, NL, Chars("### Response:"), NL>>

\* The input_text of a prompt template.
TemplateInput(inputs) == SubSeq(inputs, 8, Len(inputs) - 4)

PostMessage(input_text, direction) ==
    [url |-> "HF_API_URL",
     headers |-> "Authorization: Bearer HF_TOKEN",
     timeout |-> ClientTimeout,
     json |-> [inputs |-> PromptTemplate(Instruction(direction), input_text),
               parameters |-> [max_new_tokens |-> MaxNewTokens,
                               return_full_text |-> FALSE]]]

\* A client that sends the request a second time.
PostTwice(sent, msg) == Append(Append(sent, msg), msg)

\* client.post(...): one request goes out (httpx does not retry).
Post(sent, msg) == Append(sent, msg)

(***************************************************************************)
(* call_language_engine, from its await on: the reply of the inference     *)
(* service is [exc, status_code, text, json]: exc names the exception      *)
(* client.post raised ("" when it returned a response), text is            *)
(* response.text, json is what response.json() decodes the body to         *)
(* (Undecodable when the body is not JSON).                                *)
(***************************************************************************)
Undecodable == [k |-> "JSONDecodeError", v |-> ""]

NoReply == [exc |-> "", status_code |-> 0, text |-> "", json |-> Undecodable]

HTTPException(code, detail) ==
    [raised |-> TRUE, status_code |-> code, detail |-> detail, ret |-> <<>>]

Returned(text) ==
    [raised |-> FALSE, status_code |-> 0, detail |-> <<>>, ret |-> text]

\* response.raise_for_status() raises HTTPStatusError unless the status is 2xx.
IsSuccess(code) == code \in 200..299

\* result[0]['generated_text'].strip(): the text, or the exception raised.
GeneratedText(result) ==
    LET Raise(e) == [exc |-> e, text |-> <<>>]
    IN CASE result.k = "JSONDecodeError" -> Raise("JSONDecodeError")
         [] result.k = "dict" -> Raise("KeyError")
         [] result.k = "list" /\ result.v = <<>> -> Raise("IndexError")
         [] result.k = "list" /\ result.v # <<>> ->
               LET first == result.v[1]
               IN IF first.k # "dict" THEN Raise("TypeError")
                  ELSE IF "generated_text" \notin DictKeys(first)
                  THEN Raise("KeyError")
                  ELSE LET g == DictGet(first, "generated_text", PyNone)
                       IN IF g.k # "str" THEN Raise("AttributeError")
                          ELSE [exc |-> "", text |-> Strip(g.v)]
         [] OTHER -> Raise("TypeError")

\* The handlers in the other order: every failure is a 500.
HandleReplyBroadFirst(reply) ==
    LET got == GeneratedText(reply.json)
    IN IF reply.exc # "" \/ ~IsSuccess(reply.status_code) \/ got.exc # ""
       THEN HTTPException(500, <<Chars("An unexpected error occurred: ")>>)
       ELSE Returned(got.text)

\* A handler that gives up with an empty text instead of raising.
HandleReplySwallow(reply) ==
    LET got == GeneratedText(reply.json)
    IN IF reply.exc # "" THEN Returned(<<>>)
       ELSE IF ~IsSuccess(reply.status_code)
       THEN HTTPException(reply.status_code,
                          <<Chars("Error from HF API: "), Chars(reply.text)>>)
       ELSE IF got.exc # "" THEN Returned(<<>>)
       ELSE Returned(got.text)

\* The try block of call_language_engine and its two handlers.
HandleReply(reply) ==
    LET Unexpected(e) ==
            HTTPException(500, <<Chars("An unexpected error occurred: "),
                                 Chars(e)>>)
        got == GeneratedText(reply.json)
    IN IF reply.exc # "" THEN Unexpected(reply.exc)
       ELSE IF ~IsSuccess(reply.status_code)
       THEN HTTPException(reply.status_code,
                          <<Chars("Error from HF API: "), Chars(reply.text)>>)
       ELSE IF got.exc # "" THEN Unexpected(got.exc)
       ELSE Returned(got.text)

\* A client closed only when the call returns normally.
CloseOnReturnOnly(open, res) == IF res.raised THEN open ELSE open - 1

\* Leaving "async with httpx.AsyncClient(...)": the client is closed, whether
\* the block returned or raised.
AsyncWithExit(open, res) == open - 1

(***************************************************************************)
(* process_prompt between its two awaits.                                  *)
(***************************************************************************)
NoResult == [kind |-> "pending", status_code |-> 0, status |-> "", text |-> <<>>]

\* return {"response": text, "status": status}: FastAPI answers 200.
Response(text, status) ==
    [kind |-> "return", status_code |-> 200, status |-> status, text |-> text]

\* An HTTPException leaving the endpoint: FastAPI answers status_code, detail.
Failure(res) ==
    [kind |-> "HTTPException", status_code |-> res.status_code, status |-> "",
     text |-> res.detail]

\* Any other exception leaving the endpoint: the program built no response.
Unhandled(exc) ==
    [kind |-> exc, status_code |-> 0, status |-> "", text |-> <<>>]

RephraseMessage ==
    <<Chars("I had trouble understanding that. Could you rephrase?")>>

UnknownActionMessage ==
    <<Chars("I understand the subject, but I'm not sure how to perform that action yet.")>>

\* repr(val) and str(val), as an f-string formats a value.
RECURSIVE Repr(_), ReprElements(_), ReprItems(_)

Repr(val) ==
    CASE val.k = "str"  -> <<Chars("'"), Chars(val.v), Chars("'")>>
      [] val.k = "list" -> <<Chars("[")>> \o ReprElements(val.v) \o <<Chars("]")>>
      [] val.k = "dict" -> <<Chars("{")>> \o ReprItems(val.v) \o <<Chars("}")>>
      [] OTHER          -> <<Chars(val.v)>>

ReprElements(s) ==
    IF s = <<>> THEN <<>>
    ELSE Repr(Head(s)) \o (IF Len(s) > 1 THEN <<Chars(", ")>> ELSE <<>>)
         \o ReprElements(Tail(s))

ReprItems(its) ==
    IF its = <<>> THEN <<>>
    ELSE <<Chars("'"), Chars(Head(its).key), Chars("'"), Chars(": ")>>
         \o Repr(Head(its).val)
         \o (IF Len(its) > 1 THEN <<Chars(", ")>> ELSE <<>>)
         \o ReprItems(Tail(its))

Format(val) == IF val.k = "str" THEN <<Chars(val.v)>> ELSE Repr(val)

CuriousMessage(subject) ==
    <<Chars("I don't have information about '")>>
    \o Format(subject)
    \o <<Chars("'. Can you describe its properties or how it relates to things I know?")>>

\* A parse failure taken for an empty query.
TryLoadsDefault(text) ==
    LET r == JsonLoads(text)
    IN IF r.ok THEN r ELSE [ok |-> TRUE, val |-> PyDict(<<>>)]

\* try: json.loads(...) except json.JSONDecodeError
TryLoads(text) == JsonLoads(text)

\* A missing action taken for the default action.
ActionIsQueryOrMissing(structured_query) ==
    LET action == DictGet(structured_query, "action", PyNone)
    IN PyEq(action, PyStr("query_properties")) \/ action = PyNone

\* structured_query.get("action") == "query_properties"
ActionIsQueryProperties(structured_query) ==
    PyEq(DictGet(structured_query, "action", PyNone), PyStr("query_properties"))

\* Lines 49-68 for the text the first call returned: what the request does
\* next ("return", "raise" or "call" the engine again), with the store reads
\* made on the way and the store they leave.
Dispatch(g, structured_query_str) ==
    LET loaded == TryLoads(structured_query_str)
        structured_query == loaded.val
        subject == DictGet(structured_query, "subject", PyNone)
        node == has_node(g, subject)
        looked == NodeProperties(node.store, subject.v)
        response_data ==
            PyDict(<<Item("subject", subject),
                     Item("properties", StrList(looked.properties))>>)
        Step(next, result, reads, store, input_text) ==
            [next |-> next, result |-> result, reads |-> reads,
             store |-> store, input_text |-> input_text]
    IN IF ~loaded.ok
       THEN Step("return", Response(RephraseMessage, "error"), <<>>, g, <<>>)
       ELSE IF structured_query.k # "dict"
       THEN Step("raise", Unhandled("AttributeError"), <<>>, g, <<>>)
       ELSE IF ~node.found
       THEN Step("return", Response(CuriousMessage(subject), "curious"),
                 <<"has_node">>, node.store, <<>>)
       ELSE IF ~ActionIsQueryProperties(structured_query)
       THEN Step("return", Response(UnknownActionMessage, "unknown_action"),
                 <<"has_node">>, node.store, <<>>)
       ELSE IF looked.exc # ""
       THEN Step("raise", Unhandled(looked.exc), <<"has_node", "nodes">>,
                 looked.store, <<>>)
       ELSE Step("call", NoResult, <<"has_node", "nodes">>, looked.store,
                 JsonDumps(response_data))

(***************************************************************************)
(* Inputs: the prompts of the callers and the replies of the inference     *)
(* service.                                                                *)
(***************************************************************************)
Prompts == {<<Chars("What is ice like?")>>}

Member(key, value_text) == <<StrTok(key), Colon>> \o value_text

RECURSIVE JoinComma(_)
JoinComma(texts) ==
    IF texts = <<>> THEN <<>>
    ELSE Head(texts) \o (IF Len(texts) > 1 THEN <<Comma>> ELSE <<>>)
         \o JoinComma(Tail(texts))

ObjectText(members) == <<LBrace>> \o JoinComma(members) \o <<RBrace>>

QueryProps == <<StrTok("query_properties")>>

SeedNames == {"water", "ice", "heat"}

\* Objects whose subject is a node and whose action is "query_properties".
KnownQueryTexts ==
    {ObjectText(<<Member("subject", <<StrTok(n)>>), Member("action", QueryProps)>>)
        : n \in SeedNames}
    \cup {ObjectText(<<Member("subject", <<StrTok("fire")>>),
                       Member("subject", <<StrTok("ice")>>),
                       Member("action", QueryProps)>>),
          <<WS, LBrace, StrTok("action"), Colon, WS, StrTok("query_properties"),
            Comma, WS, StrTok("subject"), Colon, WS, StrTok("heat"), RBrace, NL>>}

\* Objects whose subject is a node and whose action is something else.
KnownOtherTexts ==
    {ObjectText(<<Member("subject", <<StrTok("ice")>>), Member("action", a)>>)
        : a \in {<<StrTok("apply_heat")>>, <<LitTok("null")>>,
                 <<LBracket, StrTok("query_properties"), RBracket>>}}
    \cup {ObjectText(<<Member("subject", <<StrTok("water")>>)>>)}

\* Objects whose subject is no node: another name, null, a number, a list,
\* or no subject at all.
UnknownSubjectTexts ==
    {ObjectText(<<Member("subject", s), Member("action", QueryProps)>>)
        : s \in {<<StrTok("fire")>>, <<LitTok("null")>>, <<NumTok("5")>>,
                 <<LBracket, StrTok("ice"), RBracket>>}}
    \cup {ObjectText(<<Member("action", QueryProps)>>),
          ObjectText(<<>>)}

\* JSON values that are not objects (Python's json also reads NaN).
NonObjectTexts ==
    {<<LBracket, StrTok("ice"), RBracket>>, <<NumTok("5")>>, <<StrTok("ice")>>,
     <<LitTok("null")>>, <<LitTok("NaN")>>}

\* Texts that are not JSON: prose, nothing, a truncated object, an object
\* followed by prose, a trailing comma, an unquoted key.
InvalidTexts ==
    {<<Chars("not json")>>,
     <<>>,
     <<LBrace, StrTok("subject"), Colon, StrTok("ice")>>,
     <<LBrace, StrTok("subject"), Colon, StrTok("ice"), RBrace, WS,
       Chars("Hope this helps")>>,
     <<LBrace, StrTok("subject"), Colon, StrTok("ice"), Comma, RBrace>>,
     <<LBrace, Chars("subject"), Colon, StrTok("ice"), RBrace>>}

QueryTexts ==
    KnownQueryTexts \cup KnownOtherTexts \cup UnknownSubjectTexts
    \cup NonObjectTexts \cup InvalidTexts

SentenceTexts ==
    {<<Chars("Ice is solid and cold.")>>,
     <<WS, Chars("Water is liquid and wet."), NL>>}

\* client.post raised: no connection, or no reply within the timeout.
TransportFailures ==
    {[exc |-> e, status_code |-> 0, text |-> "", json |-> Undecodable]
        : e \in {"ConnectError", "ReadTimeout"}}

\* The service answered with a status that is not 2xx.
StatusErrors ==
    {[exc |-> "", status_code |-> 503, text |-> "Service Unavailable",
      json |-> Undecodable],
     [exc |-> "", status_code |-> 503, text |-> "Model is loading",
      json |-> Undecodable],
     [exc |-> "", status_code |-> 404, text |-> "Not Found",
      json |-> Undecodable]}

\* The service answered 2xx with a body of another shape.
MalformedReplies ==
    {[exc |-> "", status_code |-> 204, text |-> "", json |-> Undecodable]}
    \cup {[exc |-> "", status_code |-> 200, text |-> "", json |-> j]
            : j \in {PyDict(<<Item("error", PyStr(<<Chars("loading")>>))>>),
                     PyList(<<>>),
                     PyList(<<PyDict(<<>>)>>),
                     PyList(<<PyDict(<<Item("generated_text", PyNone)>>)>>)}}

\* The service answered 2xx with [{"generated_text": text}].
Generated(text) ==
    [exc |-> "", status_code |-> 200, text |-> "",
     json |-> PyList(<<PyDict(<<Item("generated_text", PyStr(text))>>)>>)]

FailedReplies == TransportFailures \cup StatusErrors \cup MalformedReplies

\* What the service may answer to a call of each direction.
ToQueryReplies == FailedReplies \cup {Generated(t) : t \in QueryTexts}

ToSentenceReplies == FailedReplies \cup {Generated(t) : t \in SentenceTexts}

(***************************************************************************)
(* The state.                                                              *)
(***************************************************************************)
VARIABLES
    G,          \* the world model
    pc,         \* per request: "idle", "to_query", "to_sentence" (suspended
                \* in the await of that call), "done"
    calls,      \* per request: the directions of its call_language_engine calls
    sent,       \* per request: the POSTs it issued
    open,       \* per request: its AsyncClients that are open
    response,   \* per request: the reply its latest call got (NoReply before)
    reads,      \* per request: the store operations it made
    result      \* per request: how it ended (NoResult before)

vars == <<G, pc, calls, sent, open, response, reads, result>>

Init ==
    /\ G = SeedGraph
    /\ pc = [r \in Reqs |-> "idle"]
    /\ calls = [r \in Reqs |-> <<>>]
    /\ sent = [r \in Reqs |-> <<>>]
    /\ open = [r \in Reqs |-> 0]
    /\ response = [r \in Reqs |-> NoReply]
    /\ reads = [r \in Reqs |-> <<>>]
    /\ result = [r \in Reqs |-> NoResult]

\* POST /process arrives: process_prompt runs to the await of its first call.
Receive(r) ==
    /\ pc[r] = "idle"
    /\ \E prompt \in Prompts :
          sent' = [sent EXCEPT ![r] = Post(@, PostMessage(prompt, "to_query"))]
    /\ calls' = [calls EXCEPT ![r] = Append(@, "to_query")]
    /\ open' = [open EXCEPT ![r] = @ + 1]
    /\ pc' = [pc EXCEPT ![r] = "to_query"]
    /\ UNCHANGED <<G, response, reads, result>>

\* The first call's reply arrives: call_language_engine finishes, and
\* process_prompt runs on to its return, its raise or the await of its
\* second call.
ResumeToQuery(r) ==
    /\ pc[r] = "to_query"
    /\ \E reply \in ToQueryReplies :
          LET res == HandleReply(reply)
              closed == AsyncWithExit(open[r], res)
              step == Dispatch(G, res.ret)
          IN /\ response' = [response EXCEPT ![r] = reply]
             /\ IF res.raised
                THEN /\ result' = [result EXCEPT ![r] = Failure(res)]
                     /\ pc' = [pc EXCEPT ![r] = "done"]
                     /\ open' = [open EXCEPT ![r] = closed]
                     /\ UNCHANGED <<G, calls, sent, reads>>
                ELSE /\ G' = step.store
                     /\ reads' = [reads EXCEPT ![r] = @ \o step.reads]
                     /\ result' = [result EXCEPT ![r] = step.result]
                     /\ IF step.next = "call"
                        THEN /\ sent' = [sent EXCEPT ![r] =
                                    Post(@, PostMessage(step.input_text,
                                                        "to_sentence"))]
                             /\ calls' = [calls EXCEPT ![r] =
                                    Append(@, "to_sentence")]
                             /\ open' = [open EXCEPT ![r] = closed + 1]
                             /\ pc' = [pc EXCEPT ![r] = "to_sentence"]
                        ELSE /\ pc' = [pc EXCEPT ![r] = "done"]
                             /\ open' = [open EXCEPT ![r] = closed]
                             /\ UNCHANGED <<calls, sent>>

\* The second call's reply arrives: call_language_engine finishes, and
\* process_prompt returns its text or lets the HTTPException through.
ResumeToSentence(r) ==
    /\ pc[r] = "to_sentence"
    /\ \E reply \in ToSentenceReplies :
          LET res == HandleReply(reply)
          IN /\ response' = [response EXCEPT ![r] = reply]
             /\ result' = [result EXCEPT ![r] =
                    IF res.raised THEN Failure(res)
                    ELSE Response(res.ret, "success")]
             /\ open' = [open EXCEPT ![r] = AsyncWithExit(@, res)]
    /\ pc' = [pc EXCEPT ![r] = "done"]
    /\ UNCHANGED <<G, calls, sent, reads>>

Next ==
    \E r \in Reqs :
       \/ Receive(r)
       \/ ResumeToQuery(r)
       \/ ResumeToSentence(r)

Spec == Init /\ [][Next]_vars

(***************************************************************************)
(* Properties.                                                             *)
(*                                                                         *)
(* response[r] is the first call's reply while r is suspended in its       *)
(* second call, and when r is done after a single call.                    *)
(***************************************************************************)
Obj(members) == <<LBrace>> \o JoinComma(members) \o <<RBrace>>

Done(r) == pc[r] = "done"

DoneAfterOneCall(r) == pc[r] = "done" /\ Len(calls[r]) = 1

\* The text contains the token.
Contains(text, tok) == \E i \in 1..Len(text) : text[i] = tok

\* C1: when the first (to_query) call returns text that is not valid JSON,
\* the request ends as the 200 response {status "error", the fixed rephrase
\* message}; it has read nothing from the store and never makes the second
\* (to_sentence) call.
C1_InvalidJsonIsError ==
    \A r \in Reqs : \A t \in InvalidTexts :
        response[r] = Generated(t) =>
            /\ pc[r] # "to_sentence"
            /\ DoneAfterOneCall(r) =>
                  /\ result[r].kind = "return"
                  /\ result[r].status_code = 200
                  /\ result[r].status = "error"
                  /\ result[r].text =
                        <<Chars("I had trouble understanding that. Could you rephrase?")>>
                  /\ reads[r] = <<>>
                  /\ calls[r] = <<"to_query">>
                  /\ Len(sent[r]) = 1

C1_Witness ==
    \E r \in Reqs :
        /\ Done(r)
        /\ response[r] = Generated(<<Chars("not json")>>)
        /\ result[r].status = "error"
        /\ reads[r] = <<>>

\* The objects whose subject is no node of the store, each with the way its
\* subject shows in a message.
C2_Cases ==
    {[text |-> Obj(<<Member("subject", <<StrTok("fire")>>),
                     Member("action", <<StrTok("query_properties")>>)>>),
      shown |-> <<Chars("fire")>>],
     [text |-> Obj(<<Member("subject", <<LitTok("null")>>),
                     Member("action", <<StrTok("query_properties")>>)>>),
      shown |-> <<Chars("None")>>],
     [text |-> Obj(<<Member("subject", <<NumTok("5")>>),
                     Member("action", <<StrTok("query_properties")>>)>>),
      shown |-> <<Chars("5")>>],
     [text |-> Obj(<<Member("subject", <<LBracket, StrTok("ice"), RBracket>>),
                     Member("action", <<StrTok("query_properties")>>)>>),
      shown |-> <<Chars("["), Chars("'"), Chars("ice"), Chars("'"), Chars("]")>>],
     [text |-> Obj(<<Member("action", <<StrTok("query_properties")>>)>>),
      shown |-> <<Chars("None")>>],
     [text |-> Obj(<<>>),
      shown |-> <<Chars("None")>>]}

\* C2: when the structured query's subject is not a node of the store
\* (another name, null, a number, a list, or no subject at all), the request
\* returns status "curious" with a message that embeds the subject, and the
\* to_sentence call is never made: one outbound call in all.
C2_UnknownSubjectIsCurious ==
    /\ UnknownSubjectTexts = {c.text : c \in C2_Cases}
    /\ \A r \in Reqs : \A c \in C2_Cases :
          response[r] = Generated(c.text) =>
              /\ pc[r] # "to_sentence"
              /\ DoneAfterOneCall(r) =>
                    /\ result[r].kind = "return"
                    /\ result[r].status = "curious"
                    /\ result[r].text =
                          <<Chars("I don't have information about '")>>
                          \o c.shown
                          \o <<Chars("'. Can you describe its properties or how it relates to things I know?")>>
                    /\ calls[r] = <<"to_query">>
                    /\ Len(sent[r]) = 1

C2_Witness ==
    \E r \in Reqs :
        /\ Done(r)
        /\ response[r] = Generated(Obj(<<Member("subject", <<StrTok("fire")>>),
                                         Member("action", <<StrTok("query_properties")>>)>>))
        /\ result[r].status = "curious"
        /\ Contains(result[r].text, Chars("fire"))
        /\ Len(sent[r]) = 1

\* The store's recorded properties, as the seed list of main.py gives them.
C3_Recorded ==
    [n \in {"water", "ice", "heat"} |->
        CASE n = "water" -> <<"liquid", "wet">>
          [] n = "ice"   -> <<"solid", "cold">>
          [] n = "heat"  -> <<"energy">>]

\* The subject each known "query_properties" text asks about.
C3_Subject(text) ==
    IF Contains(text, StrTok("heat")) THEN "heat"
    ELSE IF Contains(text, StrTok("water")) THEN "water"
    ELSE "ice"

\* The data of the request's second POST, read back from its payload.
C3_Data(r) == JsonLoads(TemplateInput(sent[r][2].json.inputs))

C3_SentenceCases ==
    {[text |-> <<Chars("Ice is solid and cold.")>>,
      returned |-> <<Chars("Ice is solid and cold.")>>],
     [text |-> <<WS, Chars("Water is liquid and wet."), NL>>,
      returned |-> <<Chars("Water is liquid and wet.")>>]}

\* C3: when the subject is a node of the store and the action is
\* "query_properties", the to_sentence call is given {subject, properties}
\* with exactly the store's recorded properties of that subject, in order;
\* when that call succeeds the request returns status "success" with the
\* string the translator returned.
C3_PropertiesPassedDownstream ==
    /\ SentenceTexts = {c.text : c \in C3_SentenceCases}
    /\ \A r \in Reqs :
          /\ \A t \in KnownQueryTexts :
                (response[r] = Generated(t) /\ pc[r] # "to_query") =>
                    /\ pc[r] = "to_sentence"
                    /\ Len(sent[r]) = 2
                    /\ C3_Data(r).ok
                    /\ C3_Data(r).val =
                          PyDict(<<Item("subject", PyStr(C3_Subject(t))),
                                   Item("properties",
                                        StrList(C3_Recorded[C3_Subject(t)]))>>)
          /\ Len(sent[r]) >= 2 =>
                /\ sent[r][2].json.inputs[3] =
                      Chars("Convert the following structured data to a sentence.")
                /\ \E n \in DOMAIN C3_Recorded :
                      C3_Data(r).val =
                          PyDict(<<Item("subject", PyStr(n)),
                                   Item("properties", StrList(C3_Recorded[n]))>>)
          /\ \A c \in C3_SentenceCases :
                (Done(r) /\ response[r] = Generated(c.text)) =>
                    result[r] = [kind |-> "return", status_code |-> 200,
                                 status |-> "success", text |-> c.returned]

C3_Witness ==
    \E r \in Reqs :
        /\ Done(r)
        /\ result[r].status = "success"
        /\ result[r].text = <<Chars("Water is liquid and wet.")>>
        /\ C3_Data(r).val =
              PyDict(<<Item("subject", PyStr("ice")),
                       Item("properties", PyList(<<PyStr("solid"), PyStr("cold")>>))>>)

\* C4: when the subject is a node of the store and the action is anything
\* but "query_properties" (another name, null, a list, or no action at all),
\* the request returns status "unknown_action" with the fixed message and
\* makes no to_sentence call.
C4_OtherActionIsUnknown ==
    \A r \in Reqs : \A t \in KnownOtherTexts :
        response[r] = Generated(t) =>
            /\ pc[r] # "to_sentence"
            /\ DoneAfterOneCall(r) =>
                  /\ result[r].kind = "return"
                  /\ result[r].status = "unknown_action"
                  /\ result[r].text =
                        <<Chars("I understand the subject, but I'm not sure how to perform that action yet.")>>
                  /\ calls[r] = <<"to_query">>
                  /\ Len(sent[r]) = 1

C4_Witness ==
    \E r \in Reqs :
        /\ Done(r)
        /\ response[r] = Generated(Obj(<<Member("subject", <<StrTok("water")>>)>>))
        /\ result[r].status = "unknown_action"
        /\ reads[r] = <<"has_node">>

\* C5: when the inference service answers a call, the first or the second,
\* with a status that is not 2xx, the request fails with an HTTP error of
\* that same status code whose detail carries the upstream body text; it
\* does not end as a 200 response, and it does not go on to another call.
C5_UpstreamStatusPropagates ==
    \A r \in Reqs :
        response[r] \in StatusErrors =>
            /\ pc[r] = "done"
            /\ result[r].kind = "HTTPException"
            /\ result[r].status_code = response[r].status_code
            /\ result[r].status_code # 200
            /\ Contains(result[r].text, Chars(response[r].text))
            /\ result[r].status = ""

C5_Witness ==
    \E r1, r2 \in Reqs :
        /\ Done(r1) /\ calls[r1] = <<"to_query">>
        /\ response[r1].status_code = 404 /\ result[r1].status_code = 404
        /\ Done(r2) /\ calls[r2] = <<"to_query", "to_sentence">>
        /\ response[r2].text = "Model is loading"
        /\ result[r2].status_code = 503

\* C6: when a call fails otherwise (no connection, a timeout, a 2xx reply
\* whose body is not JSON or not an array whose first element has a
\* generated_text string), the request fails with HTTP 500 and a message
\* naming the cause; it never becomes the 200 response of status "error".
C6_OtherFailuresAre500 ==
    \A r \in Reqs :
        response[r] \in TransportFailures \cup MalformedReplies =>
            /\ pc[r] = "done"
            /\ result[r].kind = "HTTPException"
            /\ result[r].status_code = 500
            /\ Len(result[r].text) = 2
            /\ result[r].text[1] = Chars("An unexpected error occurred: ")
            /\ result[r].text[2].v \in
                  {"ConnectError", "ReadTimeout", "JSONDecodeError", "KeyError",
                   "IndexError", "TypeError", "AttributeError"}
            /\ result[r].status # "error"

C6_Witness ==
    \E r1, r2 \in Reqs :
        /\ Done(r1) /\ calls[r1] = <<"to_query">>
        /\ response[r1].exc = "ReadTimeout" /\ result[r1].status_code = 500
        /\ Done(r2) /\ calls[r2] = <<"to_query", "to_sentence">>
        /\ response[r2].json = PyList(<<>>) /\ response[r2].status_code = 200
        /\ result[r2].status_code = 500

\* C7: every request ends either as a 200 response whose status is success,
\* curious, error or unknown_action, or as an explicit error response with
\* a status code and a message describing the cause, whatever text the
\* to_query call returned.
C7_EndsInResponseOrExplicitError ==
    \A r \in Reqs :
        Done(r) =>
            \/ /\ result[r].kind = "return"
               /\ result[r].status_code = 200
               /\ result[r].status \in
                     {"success", "curious", "error", "unknown_action"}
            \/ /\ result[r].kind = "HTTPException"
               /\ result[r].status_code \in 100..599
               /\ result[r].text # <<>>

\* C8: no retry: every call_language_engine call issues exactly one POST; a
\* request makes two outbound calls exactly when it reaches status
\* "success" or fails in its to_sentence call, and one on every other path.
C8_OnePostPerCall ==
    \A r \in Reqs :
        /\ Len(sent[r]) = Len(calls[r])
        /\ Len(sent[r]) <= 2
        /\ pc[r] = "to_query" => Len(sent[r]) = 1
        /\ pc[r] = "to_sentence" => Len(sent[r]) = 2
        /\ Done(r) =>
              /\ Len(sent[r]) \in {1, 2}
              /\ Len(sent[r]) = 2 <=>
                    \/ result[r].status = "success"
                    \/ /\ result[r].kind = "HTTPException"
                       /\ calls[r] = <<"to_query", "to_sentence">>
              /\ result[r].status \in {"curious", "error", "unknown_action"}
                    => Len(sent[r]) = 1
              /\ result[r].kind \notin {"return", "HTTPException"}
                    => Len(sent[r]) = 1

C8_Witness ==
    \E r1, r2 \in Reqs :
        /\ Done(r1) /\ response[r1].exc = "ReadTimeout" /\ Len(sent[r1]) = 1
        /\ Done(r2) /\ response[r2].exc = "ReadTimeout" /\ Len(sent[r2]) = 2

\* The seed set created at startup.
C9_Seed ==
    [node |-> [n \in {"water", "ice", "heat"} |->
                  "properties" :> (CASE n = "water" -> <<"liquid", "wet">>
                                     [] n = "ice"   -> <<"solid", "cold">>
                                     [] n = "heat"  -> <<"energy">>)],
     edge |-> [e \in {<<"water", "ice">>, <<"ice", "water">>} |->
                  "action" :> (IF e = <<"water", "ice">>
                               THEN <<"remove_heat">> ELSE <<"apply_heat">>)]]

\* C9: the store is read-only after initialization: whatever requests have
\* run, in whatever interleaving and to whatever end, its nodes, their
\* property sequences and its edges are the seed set.
C9_StoreIsSeed == G = C9_Seed

C9_Witness ==
    \E r1, r2 \in Reqs :
        /\ Done(r1) /\ result[r1].status = "curious"
        /\ Contains(result[r1].text, Chars("fire"))
        /\ reads[r1] = <<"has_node">>
        /\ pc[r2] = "to_sentence" /\ reads[r2] = <<"has_node", "nodes">>
        /\ G = C9_Seed

\* C10: the client of a call is released on every exit path of the call: a
\* request holds at most one open client, exactly one while it is suspended
\* in a call, and none once it has ended.
C10_ClientIsScoped ==
    \A r \in Reqs :
        /\ open[r] \in {0, 1}
        /\ pc[r] \in {"to_query", "to_sentence"} => open[r] = 1
        /\ pc[r] \in {"idle", "done"} => open[r] = 0

C10_Witness ==
    \E r1, r2 \in Reqs :
        /\ Done(r1) /\ result[r1].kind = "HTTPException"
        /\ Len(calls[r1]) = 2 /\ open[r1] = 0
        /\ Done(r2) /\ result[r2].status = "success" /\ open[r2] = 0
====
